---- MODULE Spec2Model ----
(***************************************************************************)
(* Model of src/main.py: an HTTP/1.1 server with four routes (root probe,   *)
(* echo, user-agent reflection, static file GET/POST) and gzip negotiation. *)
(*                                                                         *)
(* Text is a sequence of characters, a character being a one-element TLA+  *)
(* string; "CR" and "LF" stand for \r and \n, and "eacute" for a character  *)
(* whose UTF-8 encoding takes two bytes.  Bytes are strings too: the byte   *)
(* of an ASCII character is the character, "xC3" "xA9" encode "eacute", and *)
(* "xFF" is a byte that is not valid UTF-8.                                 *)
(***************************************************************************)
EXTENDS Integers, Sequences, FiniteSets, TLC

(* ------------------------------ bounds --------------------------------- *)
\* longest request body a client sends after the blank line
MaxBodyLen == 2
\* longest request body of the two racing POST workers
MaxRaceLen == 2

(* ------------------------- program constants --------------------------- *)
HOME_ENDPOINT == <<"/">>
ECHO_ENDPOINT == <<"/", "e", "c", "h", "o", "/">>
USER_AGENT_ENDPOINT == <<"/", "u", "s", "e", "r", "-", "a", "g", "e", "n", "t">>
FILES_ENDPOINT == <<"/", "f", "i", "l", "e", "s", "/">>
HTTP_200_OK == <<"H", "T", "T", "P", "/", "1", ".", "1", " ", "2", "0", "0", " ", "O", "K", "CR", "LF">>
HTTP_201_CREATED == <<"H", "T", "T", "P", "/", "1", ".", "1", " ", "2", "0", "1", " ", "C", "r", "e", "a", "t", "e", "d", "CR", "LF">>
HTTP_404_NOT_FOUND == <<"H", "T", "T", "P", "/", "1", ".", "1", " ", "4", "0", "4", " ", "N", "o", "t", " ", "F", "o", "u", "n", "d", "CR", "LF">>
SUPPORTED_COMPRESSION_SCHEMES == {<<"g", "z", "i", "p">>}

CRLF == <<"CR", "LF">>
KEY_USER_AGENT == <<"u", "s", "e", "r", "-", "a", "g", "e", "n", "t">>
KEY_ACCEPT_ENCODING == <<"a", "c", "c", "e", "p", "t", "-", "e", "n", "c", "o", "d", "i", "n", "g">>
HDR_CONTENT_TYPE == <<"C", "o", "n", "t", "e", "n", "t", "-", "T", "y", "p", "e">>
HDR_CONTENT_LENGTH == <<"C", "o", "n", "t", "e", "n", "t", "-", "L", "e", "n", "g", "t", "h">>
HDR_CONTENT_ENCODING == <<"C", "o", "n", "t", "e", "n", "t", "-", "E", "n", "c", "o", "d", "i", "n", "g">>
TEXT_PLAIN == <<"t", "e", "x", "t", "/", "p", "l", "a", "i", "n">>
OCTET_STREAM == <<"a", "p", "p", "l", "i", "c", "a", "t", "i", "o", "n", "/", "o", "c", "t", "e", "t", "-", "s", "t", "r", "e", "a", "m">>
STR_GET == <<"G", "E", "T">>
STR_POST == <<"P", "O", "S", "T">>

(* --------------------------- str operations ---------------------------- *)
\* the characters str.strip() removes
Whitespace == {" ", "CR", "LF", "TAB"}

UpperLetters == <<"A", "B", "C", "D", "E", "F", "G", "H", "I", "J", "K", "L", "M",
                  "N", "O", "P", "Q", "R", "S", "T", "U", "V", "W", "X", "Y", "Z">>
LowerLetters == <<"a", "b", "c", "d", "e", "f", "g", "h", "i", "j", "k", "l", "m",
                  "n", "o", "p", "q", "r", "s", "t", "u", "v", "w", "x", "y", "z">>
Digits == <<"0", "1", "2", "3", "4", "5", "6", "7", "8", "9">>

\* s[n:]
Drop(s, n) == SubSeq(s, n + 1, Len(s))

\* s.startswith(p)
StartsWith(s, p) == Len(p) <= Len(s) /\ SubSeq(s, 1, Len(p)) = p

\* the positions at which sep occurs in s
Occurrences(s, sep) ==
    {i \in 1..(Len(s) - Len(sep) + 1) : SubSeq(s, i, i + Len(sep) - 1) = sep}

\* position of the first occurrence of sep in s, 0 when there is none
Find(s, sep) ==
    IF Occurrences(s, sep) = {} THEN 0
    ELSE CHOOSE i \in Occurrences(s, sep) : \A j \in Occurrences(s, sep) : i <= j

\* sep in s
Contains(s, sep) == Find(s, sep) # 0

\* s.split(sep)
RECURSIVE Split(_, _)
Split(s, sep) ==
    LET i == Find(s, sep)
    IN  IF i = 0 THEN <<s>>
        ELSE <<SubSeq(s, 1, i - 1)>> \o Split(Drop(s, i + Len(sep) - 1), sep)

\* s.split(sep, 1)
SplitOnce(s, sep) ==
    LET i == Find(s, sep)
    IN  IF i = 0 THEN <<s>>
        ELSE <<SubSeq(s, 1, i - 1), Drop(s, i + Len(sep) - 1)>>

RECURSIVE LStrip(_)
LStrip(s) == IF s # <<>> /\ Head(s) \in Whitespace THEN LStrip(Tail(s)) ELSE s

RECURSIVE RStrip(_)
RStrip(s) ==
    IF s # <<>> /\ s[Len(s)] \in Whitespace THEN RStrip(SubSeq(s, 1, Len(s) - 1)) ELSE s

\* s.strip()
Strip(s) == RStrip(LStrip(s))

LowerChar(c) ==
    IF \E i \in 1..Len(UpperLetters) : UpperLetters[i] = c
    THEN LowerLetters[CHOOSE i \in 1..Len(UpperLetters) : UpperLetters[i] = c]
    ELSE c

\* s.lower()
Lower(s) == [i \in 1..Len(s) |-> LowerChar(s[i])]

\* str(n) for an int n >= 0, as the f-string of build_response formats it
RECURSIVE IntToStr(_)
IntToStr(n) ==
    IF n < 10 THEN <<Digits[n + 1]>>
    ELSE IntToStr(n \div 10) \o <<Digits[(n % 10) + 1]>>

(* ------------------------------ UTF-8 ---------------------------------- *)
Utf8(c) == IF c = "eacute" THEN <<"xC3", "xA9">> ELSE <<c>>

\* s.encode(): every character is replaced by its encoding
RECURSIVE Encode(_)
Encode(s) ==
    LET i == Find(s, <<"eacute">>)
    IN  IF i = 0 THEN s
        ELSE SubSeq(s, 1, i - 1) \o Utf8(s[i]) \o Encode(Drop(s, i))

\* whether b is the UTF-8 encoding of some text
ValidUtf8(b) ==
    \A i \in 1..Len(b) :
        /\ b[i] # "xFF"
        /\ b[i] = "xC3" => (i < Len(b) /\ b[i + 1] = "xA9")
        /\ b[i] = "xA9" => (i > 1 /\ b[i - 1] = "xC3")

IsLeadByte(x) == x # "xA9"

\* the text valid UTF-8 bytes encode: one character for each lead byte
DecodeText(b) ==
    LET lead == SelectSeq(b, IsLeadByte)
    IN  [i \in 1..Len(lead) |-> IF lead[i] = "xC3" THEN "eacute" ELSE lead[i]]

\* bytes.decode(): ok is FALSE where Python raises UnicodeDecodeError
Decode(b) ==
    IF ValidUtf8(b) THEN [ok |-> TRUE, text |-> DecodeText(b)]
    ELSE [ok |-> FALSE, text |-> <<>>]

(* ------------------------------- gzip ---------------------------------- *)
\* gzip.compress(data): a 10-byte member header, the deflate stream of the
\* data (a block header, the data, an end-of-block code) and the 8-byte
\* trailer (CRC32, ISIZE)
GzipHeader == <<"x1F", "x8B", "x08", "flg", "mt", "mt", "mt", "mt", "xfl", "os">>
GzipTrailer == <<"crc", "crc", "crc", "crc", "isz", "isz", "isz", "isz">>
GzipCompress(data) == GzipHeader \o <<"blk">> \o data \o <<"eob">> \o GzipTrailer

(* --------------------------- dict operations --------------------------- *)
Range(f) == {f[x] : x \in DOMAIN f}

\* d[k] = v on a dict keyed by str
Put(d, k, v) == [x \in (DOMAIN d) \cup {k} |-> IF x = k THEN v ELSE d[x]]

\* an optional str: None, or a str (which may be empty)
None == [present |-> FALSE, text |-> <<>>]
Some(s) == [present |-> TRUE, text |-> s]

\* one item of the response_headers dict, whose value is a str or an int
StrItem(name, s) == [name |-> name, isInt |-> FALSE, num |-> 0, text |-> s]
IntItem(name, n) == [name |-> name, isInt |-> TRUE, num |-> n, text |-> <<>>]

\* response_headers[name] = item: a dict keeps the position of a key it has
SetItem(items, item) ==
    IF \E i \in 1..Len(items) : items[i].name = item.name
    THEN [i \in 1..Len(items) |-> IF items[i].name = item.name THEN item ELSE items[i]]
    ELSE Append(items, item)

\* f"{header_name}: {header_value}\r\n"
HeaderLine(item) ==
    item.name \o <<":", " ">> \o (IF item.isInt THEN IntToStr(item.num) ELSE item.text) \o CRLF

RECURSIVE HeaderLines(_)
HeaderLines(items) ==
    IF items = <<>> THEN <<>> ELSE HeaderLine(Head(items)) \o HeaderLines(Tail(items))

(* ------------------------- parse_http_request -------------------------- *)
\* the loop that fills headers_dict: a later line overwrites an earlier one
RECURSIVE HeadersDict(_, _)
HeadersDict(d, headers) ==
    IF headers = <<>> THEN d
    ELSE LET header == Head(headers)
             nv == SplitOnce(header, <<":">>)
         IN  IF Contains(header, <<":">>)
             THEN HeadersDict(Put(d, Lower(Strip(nv[1])), Strip(nv[2])), Tail(headers))
             ELSE HeadersDict(d, Tail(headers))

\* request_parts[body_start] if body_start < len(request_parts) else ""
BodyPart(request_parts, body_start) ==
    IF body_start < Len(request_parts) THEN request_parts[body_start + 1] ELSE <<>>

\* kind is "None" for the early return, "ValueError" where unpacking the
\* request line into three names raises, "dict" otherwise.  body_start is the
\* 0-based index of Python, request_parts is 1-based.
ParseHttpRequest(request_data) ==
    LET request_parts == Split(request_data, CRLF)
        request_line_parts == Split(request_parts[1], <<" ">>)
        blank == Find(request_parts, << <<>> >>)
        body_start == blank
        headers == IF blank # 0 THEN SubSeq(request_parts, 2, body_start - 1)
                   ELSE Drop(request_parts, 1)
        body == IF blank # 0 THEN BodyPart(request_parts, body_start) ELSE <<>>
    IN  IF Len(request_line_parts) < 3 THEN [kind |-> "None"]
        ELSE IF Len(request_line_parts) > 3 THEN [kind |-> "ValueError"]
        ELSE [kind |-> "dict",
              method |-> request_line_parts[1],
              target |-> request_line_parts[2],
              headers |-> HeadersDict(<<>>, headers),
              body |-> body]

(* ---------------------------- build_response --------------------------- *)
\* the set without the strip(): a token after ", " keeps its leading space
AcceptedEncodingsUnstripped(value) == Range(Split(Lower(value), <<",">>))

\* {enc.strip() for enc in value.lower().split(",")}
AcceptedEncodings(value) == {Strip(enc) : enc \in Range(Split(Lower(value), <<",">>))}

\* the branch of build_response that compresses the body
Compresses(request_headers, body) ==
    /\ KEY_ACCEPT_ENCODING \in DOMAIN request_headers
    /\ AcceptedEncodings(request_headers[KEY_ACCEPT_ENCODING])
           \cap SUPPORTED_COMPRESSION_SCHEMES # {}
    /\ body.present

BuildResponse(status_code, request_headers, response_headers, body) ==
    LET compress == Compresses(request_headers, body)
        scheme == CHOOSE s \in SUPPORTED_COMPRESSION_SCHEMES : TRUE
        body_compressed == GzipCompress(Encode(body.text))
        first == IF compress
                 THEN status_code \o HDR_CONTENT_ENCODING \o <<":", " ">> \o scheme \o CRLF
                 ELSE status_code
        items == IF compress
                 THEN SetItem(response_headers, IntItem(HDR_CONTENT_LENGTH, Len(body_compressed)))
                 ELSE response_headers
        response == first \o HeaderLines(items) \o CRLF
    IN  IF compress THEN Encode(response) \o body_compressed
        ELSE IF body.present THEN Encode(response) \o Encode(body.text)
        ELSE Encode(response)

(* ----------------------------- file system ----------------------------- *)
\* a path below DIRECTORY is named by its part after DIRECTORY; the empty
\* path is DIRECTORY itself
Absent == [kind |-> "absent", data |-> <<>>]
Dir == [kind |-> "dir", data |-> <<>>]
File(data) == [kind |-> "file", data |-> data]

Lookup(files, path) == IF path \in DOMAIN files THEN files[path] ELSE Absent

\* filepath.exists()
Exists(files, path) == Lookup(files, path).kind # "absent"

\* open without truncation (mode "r+" or "a"): an existing file keeps its bytes
OpenKeep(files, path) ==
    IF Lookup(files, path).kind = "file" THEN files ELSE Put(files, path, File(<<>>))

\* filepath.open("w"): creates the file or truncates it to length 0
OpenTruncate(files, path) == Put(files, path, File(<<>>))

\* the write of the buffered data at the descriptor's offset when the file
\* object is closed: it replaces the bytes it covers and keeps the others
WriteAt(files, path, offset, data) ==
    LET old == Lookup(files, path).data
        n == IF Len(old) > offset + Len(data) THEN Len(old) ELSE offset + Len(data)
    IN  Put(files, path,
            File([i \in 1..n |-> IF i > offset /\ i <= offset + Len(data)
                                 THEN data[i - offset] ELSE old[i]]))

\* the newline translation of a file read in text mode: \r\n and \r become \n
RECURSIVE UniversalNewlines(_)
UniversalNewlines(s) ==
    IF s = <<>> THEN <<>>
    ELSE IF Head(s) = "CR"
    THEN IF Len(s) >= 2 /\ s[2] = "LF"
         THEN <<"LF">> \o UniversalNewlines(Drop(s, 2))
         ELSE <<"LF">> \o UniversalNewlines(Tail(s))
    ELSE <<Head(s)>> \o UniversalNewlines(Tail(s))

(* ------------------------------ handlers ------------------------------- *)
\* what a handler does: it raises, or it returns the bytes build_response
\* made of the arguments in call; files is the file system it leaves
NoCall == [status_code |-> <<>>, response_headers |-> <<>>, body |-> None]
Raised(exc, files) ==
    [raised |-> exc, call |-> NoCall, response |-> <<>>, files |-> files]
Returned(status_code, request_headers, response_headers, body, files) ==
    [raised |-> "",
     call |-> [status_code |-> status_code, response_headers |-> response_headers,
               body |-> body],
     response |-> BuildResponse(status_code, request_headers, response_headers, body),
     files |-> files]

GetEchoResponse(request_data, files) ==
    LET response_body == Drop(request_data.target, Len(ECHO_ENDPOINT))
        response_headers == <<StrItem(HDR_CONTENT_TYPE, TEXT_PLAIN),
                              IntItem(HDR_CONTENT_LENGTH, Len(response_body))>>
    IN  Returned(HTTP_200_OK, request_data.headers, response_headers,
                 Some(response_body), files)

GetUseragentResponse(request_data, files) ==
    LET request_headers == request_data.headers
    IN  IF KEY_USER_AGENT \notin DOMAIN request_headers
        THEN Raised("KeyError", files)
        ELSE LET response_body == request_headers[KEY_USER_AGENT]
                 response_headers == <<StrItem(HDR_CONTENT_TYPE, TEXT_PLAIN),
                                       IntItem(HDR_CONTENT_LENGTH, Len(response_body))>>
             IN  Returned(HTTP_200_OK, request_headers, response_headers,
                          Some(response_body), files)

GetFilesResponse(request_data, files) ==
    LET filepath == Drop(request_data.target, Len(FILES_ENDPOINT))
        f == Lookup(files, filepath)
        decoded == Decode(f.data)
        response_body == UniversalNewlines(decoded.text)
        response_headers == <<StrItem(HDR_CONTENT_TYPE, OCTET_STREAM),
                              IntItem(HDR_CONTENT_LENGTH, Len(response_body))>>
    IN  IF ~Exists(files, filepath)
        THEN Returned(HTTP_404_NOT_FOUND, request_data.headers, <<>>, None, files)
        ELSE IF f.kind = "dir" THEN Raised("IsADirectoryError", files)
        ELSE IF ~decoded.ok THEN Raised("UnicodeDecodeError", files)
        ELSE Returned(HTTP_200_OK, request_data.headers, response_headers,
                      Some(response_body), files)

PostFilesResponse(request_data, files) ==
    LET filename == Drop(request_data.target, Len(FILES_ENDPOINT))
        request_body == request_data.body
    IN  IF Lookup(files, filename).kind = "dir"
        THEN Raised("IsADirectoryError", files)
        ELSE Returned(HTTP_201_CREATED, request_data.headers, <<>>, None,
                      WriteAt(OpenTruncate(files, filename), filename, 0,
                              Encode(request_body)))

(* ---------------------------- handle_request --------------------------- *)
\* the branch of the if/elif chain a parsed request takes
Branch(request_data) ==
    IF request_data.target = HOME_ENDPOINT THEN "home"
    ELSE IF StartsWith(request_data.target, ECHO_ENDPOINT) THEN "echo"
    ELSE IF request_data.target = USER_AGENT_ENDPOINT THEN "user-agent"
    ELSE IF StartsWith(request_data.target, FILES_ENDPOINT)
    THEN IF request_data.method = STR_GET THEN "files-get"
         ELSE IF request_data.method = STR_POST THEN "files-post"
         ELSE "unassigned"
    ELSE "not-found"

\* the response handle_request passes to sendall, or the exception it raises:
\* TypeError where parse_http_request returned None and is subscripted,
\* UnboundLocalError where no branch assigned response
HandleRequestResult(request, files) ==
    LET request_data == ParseHttpRequest(request)
        branch == Branch(request_data)
    IN  IF request_data.kind = "ValueError" THEN Raised("ValueError", files)
        ELSE IF request_data.kind = "None" THEN Raised("TypeError", files)
        ELSE CASE branch = "home" ->
                    Returned(HTTP_200_OK, request_data.headers, <<>>, None, files)
               [] branch = "echo" -> GetEchoResponse(request_data, files)
               [] branch = "user-agent" -> GetUseragentResponse(request_data, files)
               [] branch = "files-get" -> GetFilesResponse(request_data, files)
               [] branch = "files-post" -> PostFilesResponse(request_data, files)
               [] branch = "unassigned" -> Raised("UnboundLocalError", files)
               [] branch = "not-found" ->
                    Returned(HTTP_404_NOT_FOUND, request_data.headers, <<>>, None, files)

(* ------------------------------ clients -------------------------------- *)
\* what a client sends: the tokens of the request line joined by spaces, the
\* header lines, then nothing (term "none"), a line end ("crlf") or a blank
\* line and the body ("blank"); tail is bytes sent after that
STR_DELETE == <<"D", "E", "L", "E", "T", "E">>
HTTP_VERSION == <<"H", "T", "T", "P", "/", "1", ".", "1">>
T_ECHO_AB == <<"/", "e", "c", "h", "o", "/", "a", "b">>
T_ECHO_EMPTY == <<"/", "e", "c", "h", "o", "/">>
T_ECHO_MB == <<"/", "e", "c", "h", "o", "/", "eacute">>
T_ECHO_BARE == <<"/", "e", "c", "h", "o">>
T_UA_SUB == <<"/", "u", "s", "e", "r", "-", "a", "g", "e", "n", "t", "/", "x">>
T_FILES_BARE == <<"/", "f", "i", "l", "e", "s">>
T_FILES_F == <<"/", "f", "i", "l", "e", "s", "/", "f">>
T_FILES_D == <<"/", "f", "i", "l", "e", "s", "/", "d">>
T_NOPE == <<"/", "n", "o", "p", "e">>
H_UA == <<"U", "s", "e", "r", "-", "A", "g", "e", "n", "t", ":", " ", " ", "c", "u", " ">>
H_GZIP == <<"A", "c", "c", "e", "p", "t", "-", "E", "n", "c", "o", "d", "i", "n", "g", ":", " ", "g", "z", "i", "p">>
H_MIXED == <<"A", "C", "C", "E", "P", "T", "-", "E", "n", "c", "o", "d", "i", "n", "g", ":", " ", "b", "r", ",", " ", "G", "Z", "i", "p">>
H_BR == <<"A", "c", "c", "e", "p", "t", "-", "E", "n", "c", "o", "d", "i", "n", "g", ":", " ", "b", "r">>
H_JUNK == <<"j", "u", "n", "k">>

RECV_SIZE == 4096

Methods == {STR_GET, STR_POST, STR_DELETE}
Targets == {HOME_ENDPOINT, T_ECHO_AB, T_ECHO_EMPTY, T_ECHO_MB, T_ECHO_BARE,
            USER_AGENT_ENDPOINT, T_UA_SUB, T_FILES_BARE, FILES_ENDPOINT,
            T_FILES_F, T_FILES_D, T_NOPE}
HeaderSets == {<<>>, <<H_UA>>, <<H_GZIP>>, <<H_JUNK, H_MIXED>>, <<H_BR>>,
               <<H_UA, H_BR, H_GZIP>>}
BodyChars == {"a", "CR", "LF"}
Bodies == UNION {[1..n -> BodyChars] : n \in 0..MaxBodyLen}

Client(tokens, headers, term, body, tail) ==
    [tokens |-> tokens, headers |-> headers, term |-> term, body |-> body, tail |-> tail]

\* well-formed requests without a body, over every method, target and header set
PlainClients ==
    {Client(<<m, t, HTTP_VERSION>>, h, "blank", <<>>, <<>>) :
        m \in Methods, t \in Targets, h \in HeaderSets}
\* requests that carry a body
BodyClients ==
    {Client(<<m, t, HTTP_VERSION>>, <<>>, "blank", b, <<>>) :
        m \in {STR_GET, STR_POST}, t \in {T_FILES_F, T_ECHO_AB}, b \in Bodies}
\* requests that end without a blank line
OpenClients ==
    {Client(<<STR_GET, t, HTTP_VERSION>>, h, term, <<>>, <<>>) :
        t \in {T_ECHO_AB, USER_AGENT_ENDPOINT}, h \in {<<>>, <<H_UA>>},
        term \in {"none", "crlf"}}
\* request lines of 0, 2 and 4 tokens, and bytes that are not UTF-8
BadClients ==
    {Client(tokens, <<>>, "blank", <<>>, <<>>) :
        tokens \in {<<>>, <<STR_GET, HOME_ENDPOINT>>,
                    <<STR_GET, HOME_ENDPOINT, HTTP_VERSION, <<"x">> >>}}
    \cup {Client(<<STR_GET, HOME_ENDPOINT, HTTP_VERSION>>, <<>>, "blank", <<>>, <<"xFF">>)}
Clients == PlainClients \cup BodyClients \cup OpenClients \cup BadClients

RECURSIVE Join(_, _)
Join(parts, sep) ==
    IF parts = <<>> THEN <<>>
    ELSE IF Len(parts) = 1 THEN parts[1]
    ELSE parts[1] \o sep \o Join(Tail(parts), sep)

\* the bytes the client writes to its socket
Wire(c) ==
    Encode(Join(<<Join(c.tokens, <<" ">>)>> \o c.headers, CRLF)
           \o (CASE c.term = "none" -> <<>>
                 [] c.term = "crlf" -> CRLF
                 [] c.term = "blank" -> CRLF \o CRLF \o c.body))
    \o c.tail

(* ------------------------------- state --------------------------------- *)
VARIABLES
    pc,          \* where client_handler is: idle, recv, handle, except, finally, done
    client,      \* the client of the connection being handled
    inbuf,       \* the bytes the client sent
    request,     \* the str recv(4096).decode() returned
    result,      \* what handle_request did: the call of build_response, or the raise
    sent,        \* the byte strings passed to sendall, in order
    closed,      \* how many times client_connection.close() ran
    exc,         \* the exception the except clause caught, "" if none
    propagated,  \* whether an exception left client_handler
    fs,          \* the files below DIRECTORY
    lastPost,    \* the last POST that wrote a file, as its client sent it
    workers,     \* two pool workers inside post_files_response for the same file
    lastClose    \* the worker whose file was closed last, 0 if none

vars == <<pc, client, inbuf, request, result, sent, closed, exc, propagated, fs,
          lastPost, workers, lastClose>>

connVars == <<pc, client, inbuf, request, result, sent, closed, exc, propagated, lastPost>>
raceVars == <<workers, lastClose>>

NoClient == Client(<<>>, <<>>, "none", <<>>, <<>>)
NoResult == [branch |-> "", raised |-> "", call |-> NoCall, response |-> <<>>]
NoPost == [set |-> FALSE, name |-> <<>>, body |-> <<>>]

PATH_F == <<"f">>
PATH_D == <<"d">>
\* what DIRECTORY/f is when the server starts; DIRECTORY/d is a directory
InitialFiles == {Absent, File(<<"h", "i">>), File(<<"h", "CR", "LF", "i">>)}

ConnInit ==
    /\ pc = "idle"
    /\ client = NoClient
    /\ inbuf = <<>>
    /\ request = <<>>
    /\ result = NoResult
    /\ sent = <<>>
    /\ closed = 0
    /\ exc = ""
    /\ propagated = FALSE
    /\ lastPost = NoPost

Init ==
    /\ ConnInit
    /\ \E f \in InitialFiles :
           fs = [p \in {<<>>, PATH_D, PATH_F} |-> IF p = PATH_F THEN f ELSE Dir]
    /\ workers = <<>>
    /\ lastClose = 0

(* ------------------------------- main ---------------------------------- *)
\* main: accept() returns a connection and the executor runs client_handler on it
Accept ==
    /\ pc = "idle"
    /\ \E c \in Clients :
           /\ client' = c
           /\ inbuf' = Wire(c)
    /\ pc' = "recv"
    /\ request' = <<>>
    /\ result' = NoResult
    /\ sent' = <<>>
    /\ closed' = 0
    /\ exc' = ""
    /\ propagated' = FALSE
    /\ UNCHANGED <<fs, lastPost, workers, lastClose>>

(* --------------------------- client_handler ---------------------------- *)
\* the classes "except Exception" catches: every exception the handler raises
\* is a subclass of Exception
Catches(e) == e \in {"UnicodeDecodeError", "ValueError", "TypeError", "KeyError",
                     "UnboundLocalError", "IsADirectoryError"}

\* request = client_connection.recv(4096).decode()
Recv ==
    /\ pc = "recv"
    /\ LET data == SubSeq(inbuf, 1, IF Len(inbuf) < RECV_SIZE THEN Len(inbuf) ELSE RECV_SIZE)
           decoded == Decode(data)
       IN  IF decoded.ok
           THEN /\ request' = decoded.text
                /\ pc' = "handle"
                /\ exc' = exc
           ELSE /\ request' = request
                /\ pc' = "except"
                /\ exc' = "UnicodeDecodeError"
    /\ UNCHANGED <<client, inbuf, result, sent, closed, propagated, fs, lastPost,
                   workers, lastClose>>

\* handle_request(request, client_connection, client_address), sendall included
HandleRequest ==
    /\ pc = "handle"
    /\ LET r == HandleRequestResult(request, fs)
           rd == ParseHttpRequest(request)
       IN  /\ result' = [branch |-> IF rd.kind = "dict" THEN Branch(rd) ELSE "",
                         raised |-> r.raised, call |-> r.call, response |-> r.response]
           /\ fs' = r.files
           /\ IF r.raised = ""
              THEN /\ sent' = Append(sent, r.response)
                   /\ pc' = "finally"
                   /\ exc' = exc
              ELSE /\ sent' = sent
                   /\ pc' = "except"
                   /\ exc' = r.raised
           /\ lastPost' = IF r.raised = "" /\ rd.kind = "dict" /\ Branch(rd) = "files-post"
                          THEN [set |-> TRUE,
                                name |-> Drop(client.tokens[2], Len(FILES_ENDPOINT)),
                                body |-> Encode(client.body)]
                          ELSE lastPost
    /\ UNCHANGED <<client, inbuf, request, closed, propagated, workers, lastClose>>

\* except Exception as e: print(...)
Except ==
    /\ pc = "except"
    /\ propagated' = ~Catches(exc)
    /\ pc' = "finally"
    /\ UNCHANGED <<client, inbuf, request, result, sent, closed, exc, fs, lastPost,
                   workers, lastClose>>

\* close() as the last statement of the try block instead: skipped on a raise
CloseInTry ==
    /\ pc = "finally"
    /\ closed' = IF exc = "" THEN closed + 1 ELSE closed
    /\ pc' = "done"
    /\ UNCHANGED <<client, inbuf, request, result, sent, exc, propagated, fs, lastPost,
                   workers, lastClose>>

\* finally: client_connection.close()
Finally ==
    /\ pc = "finally"
    /\ closed' = closed + 1
    /\ pc' = "done"
    /\ UNCHANGED <<client, inbuf, request, result, sent, exc, propagated, fs, lastPost,
                   workers, lastClose>>

\* client_handler returns to the executor: its locals and the closed
\* connection are gone, and the worker takes the next connection
Return ==
    /\ pc = "done"
    /\ pc' = "idle"
    /\ client' = NoClient
    /\ inbuf' = <<>>
    /\ request' = <<>>
    /\ result' = NoResult
    /\ sent' = <<>>
    /\ closed' = 0
    /\ exc' = ""
    /\ propagated' = FALSE
    /\ UNCHANGED <<fs, lastPost, workers, lastClose>>

Next == Accept \/ Recv \/ HandleRequest \/ Except \/ Finally \/ Return

Spec == Init /\ [][Next]_vars

(* ------------------- two workers in post_files_response ---------------- *)
\* Two pool threads run post_files_response for POST /files/f at once.  Each
\* has its own file object: open("w") truncates the file, f.write() fills the
\* object's buffer, and leaving the with block writes the buffer at the
\* descriptor's offset, which is 0, and closes.
RaceWorkers == {1, 2}
RaceBodies == UNION {[1..n -> {"a", "b"}] : n \in 0..MaxRaceLen}

RaceRequest(b) ==
    [kind |-> "dict", method |-> STR_POST, target |-> T_FILES_F, headers |-> <<>>,
     body |-> b]

RaceInit ==
    /\ ConnInit
    /\ \E f \in InitialFiles :
           fs = [p \in {<<>>, PATH_D, PATH_F} |-> IF p = PATH_F THEN f ELSE Dir]
    /\ \E b1, b2 \in RaceBodies :
           workers = [w \in RaceWorkers |->
                        [pc |-> "open", request_data |-> RaceRequest(IF w = 1 THEN b1 ELSE b2),
                         buffer |-> <<>>, response |-> <<>>]]
    /\ lastClose = 0

RaceFilename(w) == Drop(workers[w].request_data.target, Len(FILES_ENDPOINT))

\* with filepath.open("w") as f:
PostOpen(w) ==
    /\ workers[w].pc = "open"
    /\ fs' = OpenTruncate(fs, RaceFilename(w))
    /\ workers' = [workers EXCEPT ![w].pc = "write"]
    /\ UNCHANGED <<connVars, lastClose>>

\* f.write(request_body)
PostWrite(w) ==
    /\ workers[w].pc = "write"
    /\ workers' = [workers EXCEPT ![w].pc = "close",
                                  ![w].buffer = Encode(workers[w].request_data.body)]
    /\ UNCHANGED <<connVars, fs, lastClose>>

\* the end of the with block: the buffer is written and the file is closed
PostClose(w) ==
    /\ workers[w].pc = "close"
    /\ fs' = WriteAt(fs, RaceFilename(w), 0, workers[w].buffer)
    /\ workers' = [workers EXCEPT ![w].pc = "return"]
    /\ lastClose' = w
    /\ UNCHANGED connVars

\* return build_response(HTTP_201_CREATED, request_headers=...)
PostReturn(w) ==
    /\ workers[w].pc = "return"
    /\ workers' = [workers EXCEPT
                     ![w].pc = "done",
                     ![w].response = BuildResponse(HTTP_201_CREATED,
                                         workers[w].request_data.headers, <<>>, None)]
    /\ UNCHANGED <<connVars, fs, lastClose>>

NextRace == \E w \in RaceWorkers : PostOpen(w) \/ PostWrite(w) \/ PostClose(w) \/ PostReturn(w)

SpecRace == RaceInit /\ [][NextRace]_vars

(* ---------------------- reading a response off the wire ---------------- *)
\* position of the blank line that ends the head of a response, 0 if none
HeadEnd(resp) == Find(resp, CRLF \o CRLF)
\* the bytes after the blank line
ResponseBody(resp) == Drop(resp, HeadEnd(resp) + 3)
\* the status line and the header lines, without their line ends
HeadLines(resp) == Split(SubSeq(resp, 1, HeadEnd(resp) - 1), CRLF)
StatusLine(resp) == HeadLines(resp)[1] \o CRLF
\* the values of the header lines called name, in order
HeaderValues(resp, name) ==
    LET lines == SelectSeq(Tail(HeadLines(resp)), LAMBDA l : StartsWith(l, name \o <<":", " ">>))
    IN  [i \in 1..Len(lines) |-> Drop(lines[i], Len(name) + 2)]
\* a complete response: a status line, header lines "Name: value", a blank line
WellFormed(resp) ==
    /\ HeadEnd(resp) # 0
    /\ StatusLine(resp) \in {HTTP_200_OK, HTTP_201_CREATED, HTTP_404_NOT_FOUND}
    /\ \A i \in 2..Len(HeadLines(resp)) : Contains(HeadLines(resp)[i], <<":", " ">>)

\* the request on the connection is a request line of three tokens that was decoded
ThreeTokens == Len(client.tokens) = 3 /\ client.tail = <<>>
ClientMethod == client.tokens[1]
ClientTarget == client.tokens[2]
\* the names of the header lines the client sent
ClientHeaderNames ==
    {Lower(Strip(SplitOnce(client.headers[i], <<":">>)[1])) :
        i \in {j \in 1..Len(client.headers) : Contains(client.headers[j], <<":">>)}}
Handled == pc = "done" /\ ThreeTokens

(* ------------------------------- claims -------------------------------- *)
\* the routing rules a target matches, as the routes are documented
RulesMatching(t) ==
    {r \in {"home", "echo", "user-agent", "files"} :
        \/ r = "home" /\ t = HOME_ENDPOINT
        \/ r = "echo" /\ StartsWith(t, ECHO_ENDPOINT)
        \/ r = "user-agent" /\ t = USER_AGENT_ENDPOINT
        \/ r = "files" /\ StartsWith(t, FILES_ENDPOINT)}

\* C1: every parsed request gets exactly one handler, chosen by its target:
\* "/" the root probe (200, no body), "/echo/..." Echo, "/user-agent"
\* UserAgent, "/files/..." FileGet or FilePost, and any other target a 404
\* with empty body; no target matches two rules.
C1_OneHandlerByTarget ==
    (Handled /\ result.branch # "") =>
        LET m == RulesMatching(ClientTarget)
        IN  /\ Cardinality(m) <= 1
            /\ m = {"home"} => (result.branch = "home" /\ sent = <<Encode(HTTP_200_OK \o CRLF)>>)
            /\ m = {"echo"} => result.branch = "echo"
            /\ m = {"user-agent"} => result.branch = "user-agent"
            /\ m = {"files"} => result.branch \in {"files-get", "files-post"}
            /\ m = {} => (result.branch = "not-found"
                          /\ sent = <<Encode(HTTP_404_NOT_FOUND \o CRLF)>>)

\* the three digits of the status code of a response
StatusCode(resp) == SubSeq(resp, 10, 12)

\* C2: a request for "/files/..." whose method is neither GET nor POST is
\* answered with a well-formed 404 or 405 response.
C2_OtherMethodAnswered ==
    (Handled /\ StartsWith(ClientTarget, FILES_ENDPOINT)
             /\ ClientMethod \notin {STR_GET, STR_POST}) =>
        /\ Len(sent) = 1
        /\ HeadEnd(sent[1]) # 0
        /\ StatusCode(sent[1]) \in {<<"4", "0", "4">>, <<"4", "0", "5">>}

\* C3: a request for "/user-agent" without a user-agent header is answered
\* with a well-formed response.
C3_MissingUserAgentAnswered ==
    (Handled /\ ClientTarget = USER_AGENT_ENDPOINT
             /\ KEY_USER_AGENT \notin ClientHeaderNames) =>
        (Len(sent) = 1 /\ WellFormed(sent[1]))

\* C4: whatever bytes arrive, client_handler lets no exception out, closes
\* the connection exactly once and after any write, and has written nothing or
\* exactly one complete response; and it terminates: every step it takes
\* brings it closer to its return (no step of it waits for anything but pc).
C4_Safe ==
    /\ ~propagated
    /\ pc \in {"idle", "recv", "handle", "except", "finally"} => closed = 0
    /\ pc = "done" => closed = 1
    /\ sent = <<>> \/ (Len(sent) = 1 /\ WellFormed(sent[1]))
Running == pc \in {"recv", "handle", "except", "finally"}
StepsLeft ==
    CASE pc = "recv" -> 4 [] pc = "handle" -> 3 [] pc = "except" -> 2
      [] pc = "finally" -> 1 [] OTHER -> 0
C4_HandlerContained ==
    /\ []C4_Safe
    /\ [][Running => StepsLeft' < StepsLeft]_vars
\* a request line of four tokens was handled: nothing written, one close
C4_Witness == pc = "done" /\ exc = "ValueError" /\ sent = <<>> /\ closed = 1

\* C5: a POST /files/N with body B that returned 201, followed with no write
\* in between by GET /files/N, is answered 200 with body exactly B.
C5_PostThenGet ==
    (Handled /\ ClientMethod = STR_GET /\ StartsWith(ClientTarget, FILES_ENDPOINT)
             /\ KEY_ACCEPT_ENCODING \notin ClientHeaderNames
             /\ lastPost.set /\ lastPost.name = Drop(ClientTarget, Len(FILES_ENDPOINT))) =>
        /\ Len(sent) = 1
        /\ StatusLine(sent[1]) = HTTP_200_OK
        /\ ResponseBody(sent[1]) = lastPost.body

\* the request's accept-encoding value, split on ",", each token trimmed and
\* lower-cased, contains "gzip"
AcceptsGzip(headers) ==
    /\ KEY_ACCEPT_ENCODING \in DOMAIN headers
    /\ \E i \in DOMAIN Split(headers[KEY_ACCEPT_ENCODING], <<",">>) :
           Lower(Strip(Split(headers[KEY_ACCEPT_ENCODING], <<",">>)[i])) = <<"g", "z", "i", "p">>

\* C6: a response carries "Content-Encoding: gzip" and the compressed body
\* exactly when it has a body and the request accepts gzip; otherwise it has
\* no Content-Encoding header and its body, if any, is sent as it is.
C6_GzipIffNegotiated ==
    (pc = "done" /\ Len(sent) = 1) =>
        LET body == result.call.body
            accepted == AcceptsGzip(ParseHttpRequest(request).headers)
        IN  IF body.present /\ accepted
            THEN /\ HeaderValues(sent[1], HDR_CONTENT_ENCODING) = << <<"g", "z", "i", "p">> >>
                 /\ ResponseBody(sent[1]) = GzipCompress(Encode(body.text))
            ELSE /\ HeaderValues(sent[1], HDR_CONTENT_ENCODING) = <<>>
                 /\ ResponseBody(sent[1]) = IF body.present THEN Encode(body.text) ELSE <<>>
\* gzip was negotiated from a value that needs trimming and lower-casing
C6_Witness ==
    /\ pc = "done" /\ Len(sent) = 1
    /\ client.headers = <<H_JUNK, H_MIXED>>
    /\ HeaderValues(sent[1], HDR_CONTENT_ENCODING) # <<>>

\* C7: in a response with a body, Content-Length is the number of body bytes
\* after the blank line; for "/echo/X" the body is X (compressed if gzip was
\* negotiated) and Content-Length its length in bytes.
C7_ContentLengthIsByteLength ==
    (pc = "done" /\ Len(sent) = 1 /\ result.call.body.present) =>
        /\ HeaderValues(sent[1], HDR_CONTENT_LENGTH)
               = <<IntToStr(Len(ResponseBody(sent[1])))>>
        /\ (result.branch = "echo" /\ HeaderValues(sent[1], HDR_CONTENT_ENCODING) = <<>>) =>
               ResponseBody(sent[1]) = Encode(Drop(ClientTarget, Len(ECHO_ENDPOINT)))

\* the client of the connection sent GET /files/<suffix>
IsFileGet ==
    ThreeTokens /\ ClientMethod = STR_GET /\ StartsWith(ClientTarget, FILES_ENDPOINT)

\* C8: every GET /files/<suffix> is answered: 200, application/octet-stream
\* and the file's bytes if the path exists, 404 with empty body if not; and it
\* leaves every file as it was.
C8_FileGetAnswered ==
    [][(pc = "handle" /\ IsFileGet) =>
          LET f == Lookup(fs, Drop(ClientTarget, Len(FILES_ENDPOINT)))
          IN  /\ fs' = fs
              /\ Len(sent') = 1
              /\ IF f.kind = "absent"
                 THEN sent'[1] = Encode(HTTP_404_NOT_FOUND \o CRLF)
                 ELSE /\ StatusLine(sent'[1]) = HTTP_200_OK
                      /\ HeaderValues(sent'[1], HDR_CONTENT_TYPE) = <<OCTET_STREAM>>
                      /\ KEY_ACCEPT_ENCODING \notin ClientHeaderNames
                             => ResponseBody(sent'[1]) = f.data]_vars

RaceDone == DOMAIN workers = RaceWorkers /\ \A w \in RaceWorkers : workers[w].pc = "done"
RaceBody(w) == Encode(workers[w].request_data.body)

\* C9 as stated: once both POSTs have completed, the file holds the body of
\* the POST that wrote last, so B1 or B2 and never a mixture.
C9_LastWriterWins ==
    RaceDone =>
        /\ fs[PATH_F].data = RaceBody(lastClose)
        /\ fs[PATH_F].data \in {RaceBody(1), RaceBody(2)}

\* C9 as amended: once both POSTs have completed, the file starts with the
\* body of the POST whose file was closed last; it is that body, or that body
\* followed by the rest of the other, longer body.
C9_LastWriterOverlays ==
    RaceDone =>
        LET last == RaceBody(lastClose)
            other == RaceBody(3 - lastClose)
        IN  \/ fs[PATH_F] = File(last)
            \/ /\ Len(other) > Len(last)
               /\ fs[PATH_F] = File(last \o SubSeq(other, Len(last) + 1, Len(other)))
\* both POSTs completed and the file is neither body
C9_Witness == RaceDone /\ fs[PATH_F].data \notin {RaceBody(1), RaceBody(2)}

\* C10: the parsed body is everything after the first blank line, verbatim;
\* without a blank line all lines after the request line are header lines and
\* the body is empty.
C10_BodyVerbatim ==
    (pc = "done" /\ result.branch # "") =>
        LET parts == Split(request, CRLF)
            blank == Find(parts, << <<>> >>)
            parsed == ParseHttpRequest(request)
        IN  IF blank # 0
            THEN parsed.body = Join(Drop(parts, blank), CRLF)
            ELSE /\ parsed.body = <<>>
                 /\ parsed.headers = HeadersDict(<<>>, Tail(parts))

====
